---- MODULE Spec2Model ----
(***************************************************************************)
(* SqlitePhonemizer (src/gruut/phonemize.py): layered lookup of a word's   *)
(* pronunciation in an in-memory lexicon, a sqlite table word_phonemes and *)
(* an espeak phonemizer, with write-back of freshly analyzed words.        *)
(*                                                                         *)
(* A Python str is modelled as a sequence of one-character strings, so     *)
(* that str.split() is computed and not assumed.  A phoneme list           *)
(* (PHONEMES_TYPE) is a sequence of such strs.  Python's None is the       *)
(* value None below.                                                       *)
(***************************************************************************)
EXTENDS Integers, Sequences, FiniteSets, TLC

\* Number of top-level __call__ invocations explored in one behaviour.
MaxCalls == 2

\* Python's None (as a role, as a lexicon miss, as a returned value).
None == "None"

\* SqlitePhonemizer.DEFAULT_ROLE
DEFAULT_ROLE == ""

\* The words a caller passes; closed under the casing and transform functions.
Words == {"", "a", "A"}

\* The words a caller asks for.
CallWords == Words \ {""}

\* The role argument of __call__; the table and the lexicon also hold "verb".
Roles == {None, DEFAULT_ROLE, "noun"}

\* The characters str.split() treats as whitespace, those of str.isspace():
\* space, \t, \n, \r, \f, and, written by their Python escapes since they
\* cannot be typed in a string here, \x0b, \x1c-\x1f, \x85, \xa0 and the
\* Unicode spaces.  A str is a sequence of symbols; each of these is one symbol.
Whitespace ==
    {" ", "\t", "\n", "\r", "\f",
     "\\x0b", "\\x1c", "\\x1d", "\\x1e", "\\x1f", "\\x85", "\\xa0",
     "\\u1680", "\\u2000", "\\u2001", "\\u2002", "\\u2003", "\\u2004", "\\u2005",
     "\\u2006", "\\u2007", "\\u2008", "\\u2009", "\\u200a",
     "\\u2028", "\\u2029", "\\u202f", "\\u205f", "\\u3000"}

(***************************************************************************)
(* Python helpers                                                          *)
(***************************************************************************)

RECURSIVE SplitFrom(_, _, _)
\* One pass of str.split(): cur is the token being read, acc the tokens read.
SplitFrom(s, cur, acc) ==
    IF s = <<>>
    THEN IF cur = <<>> THEN acc ELSE Append(acc, cur)
    ELSE IF Head(s) \in Whitespace
         THEN SplitFrom(Tail(s), <<>>, IF cur = <<>> THEN acc ELSE Append(acc, cur))
         ELSE SplitFrom(Tail(s), Append(cur, Head(s)), acc)

\* Mutant of split: one token per character, whitespace dropped.
SplitChars(s) ==
    LET keep == SelectSeq(s, LAMBDA c : c \notin Whitespace)
    IN  [i \in 1..Len(keep) |-> <<keep[i]>>]

\* row[1].split(): the whitespace-separated tokens of a str.
split(s) == SplitFrom(s, <<>>, <<>>)

\* str.lower, str.upper, str.swapcase and w[1:] on Words.
lower(w) == IF w = "A" THEN "a" ELSE w
upper(w) == IF w = "a" THEN "A" ELSE w
swapcase(w) == IF w = "a" THEN "A" ELSE IF w = "A" THEN "a" ELSE w
tail(w) == ""

\* Calling one of the configured str -> str functions by name.
ApplyFunc(f, w) ==
    CASE f = "lower" -> lower(w)
      [] f = "upper" -> upper(w)
      [] f = "swapcase" -> swapcase(w)
      [] f = "tail" -> tail(w)

\* espeak_phonemizer.Phonemizer.phonemize(word): a str of phonemes, with a
\* space only between the words espeak reads.
phonemize(w) ==
    CASE w = "a" -> <<"e", "I">>
      [] w = "A" -> <<"k", " ", "e", "I">>
      [] OTHER -> <<>>

(***************************************************************************)
(* The table word_phonemes: a set of rows                                  *)
(*   [id, word, pron_order, phonemes, role]                                *)
(* where phonemes is a str and role is a str or None (SQL NULL).           *)
(***************************************************************************)

\* Python truthiness of the role argument: "if not role".
Falsy(role) == role = None \/ role = ""

\* The rows WHERE word = ? [AND role = ?]; a NULL role equals no role.
Matching(db, lookup_word, role) ==
    {r \in db : r.word = lookup_word /\ (Falsy(role) \/ r.role = role)}

RECURSIVE OrderBy(_)
\* ORDER BY pron_order, ascending.
OrderBy(rows) ==
    IF rows = {} THEN <<>>
    ELSE LET first == CHOOSE r \in rows : \A q \in rows : r.pron_order <= q.pron_order
         IN  <<first>> \o OrderBy(rows \ {first})

\* Mutant of Select: the role argument is ignored.
SelectAnyRole(db, lookup_word, role) == OrderBy(Matching(db, lookup_word, None))

\* cursor.fetchall() of the SELECT of lines 98-108.
Select(db, lookup_word, role) == OrderBy(Matching(db, lookup_word, role))

\* SELECT IFNULL(MAX(id), 0) + 1 FROM word_phonemes
NextId(db) ==
    IF db = {} THEN 1
    ELSE (CHOOSE r \in db : \A q \in db : r.id >= q.id).id + 1

\* SELECT IFNULL(MAX(pron_order) + 1, 0) FROM word_phonemes WHERE word = ?
NextPronOrder(db, lookup_word) ==
    LET mine == {r \in db : r.word = lookup_word}
    IN  IF mine = {} THEN 0
        ELSE (CHOOSE r \in mine : \A q \in mine : r.pron_order >= q.pron_order).pron_order + 1

\* Mutant of Insert: pron_order is always 0 and the id is the row count + 1.
InsertFlat(db, lookup_word, phonemes, role) ==
    db \cup {[id |-> Cardinality(db) + 1, word |-> lookup_word, pron_order |-> 0,
              phonemes |-> phonemes, role |-> role]}

\* Mutant of Insert: the role is not stored.
InsertNoRole(db, lookup_word, phonemes, role) ==
    db \cup {[id |-> NextId(db), word |-> lookup_word,
              pron_order |-> NextPronOrder(db, lookup_word),
              phonemes |-> phonemes, role |-> None]}

\* Mutant of Insert: nothing is stored.
InsertNothing(db, lookup_word, phonemes, role) == db

\* The INSERT of lines 114-118, committed.
Insert(db, lookup_word, phonemes, role) ==
    db \cup {[id |-> NextId(db), word |-> lookup_word,
              pron_order |-> NextPronOrder(db, lookup_word),
              phonemes |-> phonemes, role |-> role]}

(***************************************************************************)
(* The lexicon: word -> role-map.  A role-map is a Python dict, modelled   *)
(* as the sequence of its [role, phonemes] items in insertion order.  The  *)
(* dicts live in a heap, so that two words can name one dict: lexicon[w]   *)
(* is the index of the dict in the heap, 0 when w is no key.               *)
(***************************************************************************)

\* Mutant of Cached: an empty role-map counts as a miss ("if role_to_word:").
CachedNonEmpty(c, word) == c.lexicon[word] # 0 /\ c.heap[c.lexicon[word]] # <<>>

\* Mutant of Cached: a caller's probe (not the re-resolution of line 140)
\* takes a role-map without the default role for a miss.
CachedWithDefault(c, word) ==
    /\ c.lexicon[word] # 0
    /\ \/ c.log # <<>>
       \/ \E i \in 1..Len(c.heap[c.lexicon[word]]) : c.heap[c.lexicon[word]][i].role = ""

\* Lines 61-63: self.lexicon.get(word) is not None, in the lexicon of c.
Cached(c, word) == c.lexicon[word] # 0

\* role in role_to_word
HasRole(role_to_word, role) == \E i \in 1..Len(role_to_word) : role_to_word[i].role = role

\* role_to_word[role], for a role that is a key.
AtRole(role_to_word, role) ==
    role_to_word[CHOOSE i \in 1..Len(role_to_word) : role_to_word[i].role = role].phonemes

\* What __call__ returns: a phoneme list, None, or an exception that propagates.
Returned(phonemes) == [kind |-> "phonemes", val |-> phonemes]
ReturnedNone == [kind |-> "None", val |-> <<>>]
Raised == [kind |-> "raise", val |-> <<>>]

\* Mutant of Probe: the requested role is skipped, as if role were None.
ProbeNoExact(role_to_word, role) ==
    IF HasRole(role_to_word, DEFAULT_ROLE)
    THEN Returned(AtRole(role_to_word, DEFAULT_ROLE))
    ELSE IF role_to_word # <<>>
         THEN Returned(role_to_word[1].phonemes)
         ELSE ReturnedNone

\* Mutant of Probe: the last item stands for "any role".
ProbeLast(role_to_word, role) ==
    IF role # None /\ HasRole(role_to_word, role)
    THEN Returned(AtRole(role_to_word, role))
    ELSE IF HasRole(role_to_word, DEFAULT_ROLE)
         THEN Returned(AtRole(role_to_word, DEFAULT_ROLE))
         ELSE IF role_to_word # <<>>
              THEN Returned(role_to_word[Len(role_to_word)].phonemes)
              ELSE ReturnedNone

\* Lines 63-80: the answer of a lexicon hit.
Probe(role_to_word, role) ==
    IF role # None /\ HasRole(role_to_word, role)
    THEN Returned(AtRole(role_to_word, role))
    ELSE IF HasRole(role_to_word, DEFAULT_ROLE)
         THEN Returned(AtRole(role_to_word, DEFAULT_ROLE))
         ELSE IF role_to_word # <<>>
              THEN Returned(role_to_word[1].phonemes)
              ELSE ReturnedNone

RECURSIVE MergeRowsLastWins(_, _)
\* Mutant of MergeRows: a later row of a role replaces the phonemes of an earlier one.
MergeRowsLastWins(role_to_word, rows) ==
    IF rows = <<>> THEN role_to_word
    ELSE LET row == Head(rows)
             item == [role |-> row.role, phonemes |-> split(row.phonemes)]
             next == IF HasRole(role_to_word, row.role)
                     THEN [i \in 1..Len(role_to_word) |->
                             IF role_to_word[i].role = row.role THEN item ELSE role_to_word[i]]
                     ELSE Append(role_to_word, item)
         IN  MergeRowsLastWins(next, Tail(rows))

RECURSIVE MergeRows(_, _)
\* Lines 124-133: the rows' roles are added to the dict, first row of a role wins.
MergeRows(role_to_word, rows) ==
    IF rows = <<>> THEN role_to_word
    ELSE LET row == Head(rows)
             next == IF HasRole(role_to_word, row.role)
                     THEN role_to_word
                     ELSE Append(role_to_word,
                                 [role |-> row.role, phonemes |-> split(row.phonemes)])
         IN  MergeRows(next, Tail(rows))

(***************************************************************************)
(* The phonemizer                                                          *)
(***************************************************************************)

VARIABLES
    lexicon,               \* self.lexicon: word -> index of its dict in heap, 0 = no key
    heap,                  \* the role-map dicts the lexicon's keys refer to
    db,                    \* the rows of word_phonemes as self.db_conn sees them
    uncommitted,           \* those of them in the open transaction of self.db_conn
    in_transaction,        \* self.db_conn.in_transaction: a transaction is open
    db_update_on,          \* self.db_update_on
    casing_func,           \* self.casing_func: None or the name of a function
    word_transform_funcs,  \* self.word_transform_funcs: a sequence of function names
    db0,                   \* history: the table at construction
    ncalls,                \* history: the number of __call__s made by callers
    last,                  \* history: arguments, result, trace and INSERTs of the latest __call__
    before,                \* history: lexicon, heap, table and transaction when the latest __call__ began
    analyzed,              \* history: phonemize() invocations per <<word, role>>
    faulted,               \* history: a store or espeak operation has failed
    threads                \* two callers inside __call__ at once: position and locals of each

vars == <<lexicon, heap, db, uncommitted, in_transaction, db_update_on, casing_func, word_transform_funcs,
          db0, ncalls, last, before, analyzed, faulted, threads>>

\* One step of a __call__, as recorded in its trace.
Event(op, word, n) == [op |-> op, word |-> word, n |-> n]

\* Line 58-59: the word after the optional casing function.
Casing(word) == IF casing_func = None THEN word ELSE ApplyFunc(casing_func, word)

\* Mutant of Candidates: do_transforms is ignored.
CandidatesAlways(do_transforms) == <<None>> \o word_transform_funcs

\* Mutant of Candidates: the untransformed word is tried last.
CandidatesIdentityLast(do_transforms) ==
    (IF do_transforms THEN word_transform_funcs ELSE <<>>) \o <<None>>

\* Lines 82-87: itertools.chain([None], transforms).
Candidates(do_transforms) ==
    <<None>> \o (IF do_transforms THEN word_transform_funcs ELSE <<>>)

\* Lines 88-92: the spelling looked up for one candidate.
LookupWord(transform_func, word) ==
    IF transform_func # None THEN ApplyFunc(transform_func, word) ELSE word

\* What can go wrong in one pass of the loop of lines 87-140, each pass
\* having its own SELECT, phonemize, INSERT, commit and print: nothing; the
\* SELECT raises and the open transaction stays ("query"), or it raises and
\* sqlite rolls the open transaction back, as on a disk I/O error
\* ("query_rollback"); phonemize raises; or the write-back fails, in one of
\* five ways.  execute (line 114) raises before sqlite3 has begun a transaction,
\* as for a statement it cannot compile ("prepare"); it raises after the
\* BEGIN and the transaction stays open, as when the database is locked
\* ("insert"); it raises and sqlite rolls the open transaction back, as on a
\* full disk ("insert_rollback"); the commit (line 118) raises and the open
\* transaction stays ("commit"); the commit raises and sqlite rolls the open
\* transaction back, as on a disk I/O error ("rollback").  print tells that
\* the print of the except branch (line 120) raises in its turn, as on a
\* closed stdout.
NoFault == [kind |-> "ok", print |-> FALSE]
WriteFaults == {"prepare", "insert", "insert_rollback", "commit", "rollback"}

\* The faults a pass can meet.  A pass meets each of them whatever it does:
\* one that names an operation the pass does not reach leaves it as it is.
Faults ==
    {NoFault}
    \cup {[kind |-> k, print |-> FALSE] : k \in {"query", "query_rollback", "analyze"}}
    \cup {[kind |-> k, print |-> b] : k \in WriteFaults, b \in BOOLEAN}

\* Mutant of Analyze: the INSERT is made whatever db_update_on says.
AnalyzeAlwaysWrites(c, lookup_word, role, fault) ==
    [c EXCEPT !.db = Insert(@, lookup_word, phonemize(lookup_word), role),
              !.log = @ \o <<Event("analyze", lookup_word, 0), Event("insert", lookup_word, 0)>>]

\* Lines 110-121 with the table and trace of c, in a pass where fault goes
\* wrong: phonemize, then the guarded INSERT and commit.  A commit that
\* succeeds ends the open transaction.
\* When the INSERT or the commit raises, the trace records insert_failed and
\* the bare except prints (line 120); an exception of that print leaves
\* __call__.  After a commit that raised with the transaction left open, the
\* row of the INSERT stays where every later SELECT of the phonemizer sees
\* it; after a statement or a commit that rolled back, every row of the
\* open transaction is gone.  ins keeps, for every INSERT statement that went
\* through, the table it met and the rows it added.
Analyze(c, lookup_word, role, fault) ==
    LET phonemes == phonemize(lookup_word)
        called == [c EXCEPT !.log = Append(@, Event("analyze", lookup_word, 0))]
        inserted == Insert(called.db, lookup_word, phonemes, role)
        executed == [into |-> called.db, rows |-> inserted \ called.db]
        failed == [called EXCEPT
                     !.log = Append(@, Event("insert_failed", lookup_word, 0)),
                     !.ins = IF fault.kind \in {"commit", "rollback"}
                             THEN Append(@, executed) ELSE @,
                     !.db = CASE fault.kind \in {"prepare", "insert"} -> @
                              [] fault.kind = "commit" -> inserted
                              [] fault.kind \in {"insert_rollback", "rollback"} ->
                                    @ \ called.uncommitted,
                     !.uncommitted = CASE fault.kind \in {"prepare", "insert"} -> @
                                       [] fault.kind = "commit" -> @ \cup (inserted \ called.db)
                                       [] fault.kind \in {"insert_rollback", "rollback"} -> {},
                     !.in_transaction = CASE fault.kind = "prepare" -> @
                                          [] fault.kind \in {"insert", "commit"} -> TRUE
                                          [] fault.kind \in {"insert_rollback", "rollback"} ->
                                                FALSE]
    IN  IF ~db_update_on THEN called
        ELSE IF fault.kind \in WriteFaults
             THEN IF fault.print THEN [failed EXCEPT !.ret = Raised] ELSE failed
             ELSE [called EXCEPT !.db = inserted,
                                 !.uncommitted = {},
                                 !.in_transaction = FALSE,
                                 !.ins = Append(@, executed),
                                 !.log = Append(@, Event("insert", lookup_word, 0))]

\* Lines 124-137 with the lexicon of c: a new dict for word, filled from the
\* rows, and lookup_word bound to the same dict.
Link(c, word, lookup_word, rows) ==
    LET role_to_word == MergeRows(<<>>, rows)
        ref == Len(c.heap) + 1
    IN  [c EXCEPT !.heap = Append(@, role_to_word),
                  !.lexicon = [@ EXCEPT ![word] = ref, ![lookup_word] = ref]]

\* Mutant of Exhausted: the word is remembered as unknown, bound to an empty dict.
ExhaustedMemo(c, word) ==
    [c EXCEPT !.heap = Append(@, <<>>),
              !.lexicon = [@ EXCEPT ![word] = Len(c.heap) + 1],
              !.ret = ReturnedNone]

\* Lines 142-143: no candidate of word gave rows; the lexicon is left alone.
Exhausted(c, word) == [c EXCEPT !.ret = ReturnedNone]

\* Lines 88-137: one pass of the loop for word, looking up lookup_word and
\* meeting fault.  c is the phonemizer and the trace after the pass; then
\* tells how __call__ goes on: it raises, it takes the next candidate, or,
\* rows having been merged, it calls itself (line 140).
Pass(c, word, role, lookup_word, fault) ==
    IF fault.kind \in {"query", "query_rollback"}
    THEN [c |-> [c EXCEPT !.log = Append(@, Event("query_failed", lookup_word, 0)),
                          !.db = IF fault.kind = "query" THEN @ ELSE @ \ c.uncommitted,
                          !.uncommitted = IF fault.kind = "query" THEN @ ELSE {},
                          !.in_transaction = fault.kind = "query" /\ @,
                          !.ret = Raised],
          then |-> "raise"]
    ELSE
    LET rows == Select(c.db, lookup_word, role)
        queried == [c EXCEPT !.log = Append(@, Event("query", lookup_word, Len(rows)))]
        analyzed_ == Analyze(queried, lookup_word, role, fault)
    IN  IF rows # <<>>
        THEN [c |-> Link(queried, word, lookup_word, rows), then |-> "call"]
        ELSE IF fault.kind = "analyze"
        THEN [c |-> [queried EXCEPT
                       !.log = Append(@, Event("analyze_failed", lookup_word, 0)),
                       !.ret = Raised],
              then |-> "raise"]
        ELSE IF analyzed_.ret.kind = "raise"
        THEN [c |-> analyzed_, then |-> "raise"]
        ELSE [c |-> analyzed_, then |-> "next"]

RECURSIVE Call(_, _, _, _, _)
RECURSIVE Loop(_, _, _, _, _)

\* Lines 87-143: the candidates fs still to try for word, every pass meeting
\* one of the faults of env: the ways the loop can end, each the phonemizer,
\* the trace and the result it leaves.  A candidate that is skipped (line 94)
\* makes no pass.
Loop(c, word, role, fs, env) ==
    IF fs = <<>> THEN {Exhausted(c, word)}
    ELSE
    LET lookup_word == LookupWord(Head(fs), word) IN
    IF lookup_word = ""
    THEN Loop([c EXCEPT !.log = Append(@, Event("skip", lookup_word, 0))],
              word, role, Tail(fs), env)
    ELSE UNION {CASE p.then = "raise" -> {p.c}
                  [] p.then = "next" -> Loop(p.c, word, role, Tail(fs), env)
                  [] p.then = "call" -> Call(p.c, word, role, TRUE, env) :
                p \in {Pass(c, word, role, lookup_word, fault) : fault \in env}}

\* Lines 54-143: self(word, role, do_transforms) on the lexicon, heap, table
\* and trace of c, its passes meeting faults of env: the ways the call can
\* end, each carrying what the call left and returned.
Call(c, word_arg, role, do_transforms, env) ==
    LET word == Casing(word_arg) IN
    IF Cached(c, word)
    THEN {[c EXCEPT !.log = Append(@, Event("hit", word, 0)),
                    !.ret = Probe(c.heap[c.lexicon[word]], role)]}
    ELSE Loop([c EXCEPT !.log = Append(@, Event("miss", word, 0))],
              word, role, Candidates(do_transforms), env)

(***************************************************************************)
(* Construction                                                            *)
(***************************************************************************)

\* A row of word_phonemes.
Row(id, word, pron_order, phonemes, role) ==
    [id |-> id, word |-> word, pron_order |-> pron_order, phonemes |-> phonemes, role |-> role]

\* An item of a role-map given to the constructor.
Item(role, phonemes) == [role |-> role, phonemes |-> phonemes]

\* The tables a phonemizer is opened on: empty; or one where word "a" has
\* several pronunciations of one role stored out of pron_order and no default
\* role, and word "A" has a default role and a NULL role; the phonemes are
\* separated by a space, a tab, or a space and a newline.
InitialTables ==
    { {},
      { Row(1, "a", 2, <<"n", "2">>, "noun"),
        Row(2, "a", 0, <<"v", "\t", "0">>, "verb"),
        Row(3, "a", 1, <<"n", "1">>, "noun"),
        Row(4, "A", 0, <<"m", "0">>, "verb"),
        Row(5, "A", 2, <<"z", " ", "\n", "2">>, None),
        Row(7, "A", 1, <<"d", "1">>, DEFAULT_ROLE) } }

\* The lexicons given to the constructor, each with the dicts it refers to:
\* empty; one word without a default role; one word with an empty role-map
\* and one with a default role.
InitialLexicons ==
    { [lexicon |-> [w \in Words |-> 0], heap |-> <<>>],
      [lexicon |-> [w \in Words |-> IF w = "a" THEN 1 ELSE 0],
       heap |-> << <<Item("verb", << <<"x">> >>), Item("noun", << <<"y">>, <<"y">> >>)>> >>],
      [lexicon |-> [w \in Words |-> IF w = "a" THEN 1 ELSE IF w = "A" THEN 2 ELSE 0],
       heap |-> << <<>>,
                   <<Item("noun", << <<"y">> >>), Item(DEFAULT_ROLE, << <<"d">> >>)>> >>] }

\* The casing_func arguments: absent, str.lower, str.swapcase.
CasingFuncs == {None, "lower", "swapcase"}

\* The word_transform_funcs arguments.
TransformChains == { <<"tail", "lower">>, <<"upper", "lower">> }

\* The <<word, role>> pairs phonemize can be invoked for.
Keys == (Words \ {""}) \X Roles

\* The callers that can be inside __call__ of one phonemizer at the same time.
Threads == {1, 2}

\* A caller that has not entered __call__: no locals yet.
\* role_to_word is the index in heap of the dict the local refers to (0 for
\* None), rows what the SELECT fetched, todo the rows the merge loop has yet
\* to take, size the length the dict had when line 77 made its iterator,
\* linked what line 137 read from the lexicon.
Idle == [pc |-> "idle", word |-> "", role_to_word |-> 0, rows |-> <<>>, todo |-> <<>>,
         phonemes |-> <<>>, size |-> 0, linked |-> 0,
         ret |-> ReturnedNone]

\* Lines 28-52: the phonemizer after __init__.
Init ==
    /\ \E l \in InitialLexicons : lexicon = l.lexicon /\ heap = l.heap
    /\ db \in InitialTables
    /\ db_update_on \in BOOLEAN
    /\ casing_func \in CasingFuncs
    /\ word_transform_funcs \in TransformChains
    /\ db0 = db
    /\ ncalls = 0
    /\ last = [word |-> "", role |-> None, do_transforms |-> TRUE,
               ret |-> ReturnedNone, log |-> <<>>, ins |-> <<>>]
    /\ uncommitted = {}
    /\ in_transaction = FALSE
    /\ before = [lexicon |-> lexicon, heap |-> heap, db |-> db, uncommitted |-> {},
                 in_transaction |-> FALSE]
    /\ analyzed = [k \in Keys |-> 0]
    /\ faulted = FALSE
    /\ threads = [t \in Threads |-> Idle]

\* The number of events of trace log with operation op on word.
Count(log, ops, word) ==
    Cardinality({i \in 1..Len(log) : log[i].op \in ops /\ log[i].word = word})

\* The phonemizer as a call meets it, with an empty trace.
Phonemizer ==
    [lexicon |-> lexicon, heap |-> heap, db |-> db, uncommitted |-> uncommitted,
     in_transaction |-> in_transaction, log |-> <<>>, ins |-> <<>>, ret |-> ReturnedNone]

\* A caller's self(word, role, do_transforms), lines 54-143, going one of
\* the ways it can go with the faults its passes can meet.
Resolve(word, role, do_transforms) ==
    /\ ncalls < MaxCalls
    /\ \E c \in Call(Phonemizer, word, role, do_transforms, Faults) :
           /\ lexicon' = c.lexicon
           /\ heap' = c.heap
           /\ db' = c.db
           /\ uncommitted' = c.uncommitted
           /\ in_transaction' = c.in_transaction
           /\ last' = [word |-> word, role |-> role, do_transforms |-> do_transforms,
                       ret |-> c.ret, log |-> c.log, ins |-> c.ins]
           /\ analyzed' = [k \in Keys |->
                             analyzed[k] + IF k[2] = role
                                           THEN Count(c.log, {"analyze", "analyze_failed"}, k[1])
                                           ELSE 0]
           /\ faulted' = (faulted \/ \E i \in 1..Len(c.log) :
                             c.log[i].op \in {"insert_failed", "query_failed", "analyze_failed"})
    /\ before' = [lexicon |-> lexicon, heap |-> heap, db |-> db, uncommitted |-> uncommitted,
                  in_transaction |-> in_transaction]
    /\ ncalls' = ncalls + 1
    /\ UNCHANGED <<db_update_on, casing_func, word_transform_funcs, db0, threads>>

Next ==
    \E word \in CallWords, role \in Roles, do_transforms \in BOOLEAN :
        Resolve(word, role, do_transforms)

Spec == Init /\ [][Next]_vars

(***************************************************************************)
(* Two callers of one phonemizer looking up the same word and role with    *)
(* do_transforms=False.  Nothing in __call__ takes a lock, so a caller can *)
(* be suspended between any two reads or writes of the lexicon, of a dict  *)
(* it refers to, of the table or of espeak: each of them is one step.  The *)
(* arguments of both calls are last.word and last.role.                    *)
(***************************************************************************)

\* Lines 28-52, then the arguments both callers will pass; casing functions
\* that are idempotent, so that the call of line 140 looks up the same word.
ConcInit ==
    /\ lexicon = [w \in Words |-> 0] /\ heap = <<>>
    /\ db \in InitialTables
    /\ db_update_on \in BOOLEAN
    /\ casing_func \in CasingFuncs \ {"swapcase"}
    /\ word_transform_funcs \in TransformChains
    /\ db0 = db
    /\ ncalls = 0
    /\ \E word \in CallWords, role \in Roles :
          last = [word |-> word, role |-> role, do_transforms |-> FALSE,
                  ret |-> ReturnedNone, log |-> <<>>, ins |-> <<>>]
    /\ uncommitted = {}
    /\ in_transaction = FALSE
    /\ before = [lexicon |-> lexicon, heap |-> heap, db |-> db, uncommitted |-> {},
                 in_transaction |-> FALSE]
    /\ analyzed = [k \in Keys |-> 0]
    /\ faulted = FALSE
    /\ threads = [t \in Threads |-> Idle]

\* What the steps of the callers leave alone.
Config == <<db_update_on, casing_func, word_transform_funcs, db0, last, before, faulted>>

\* Caller t ends its call with ret.
Return(t, ret) == [threads EXCEPT ![t] = [@ EXCEPT !.pc = "done", !.ret = ret]]

\* Caller t goes on at pc.
Goto(t, pc) == [threads EXCEPT ![t] = [@ EXCEPT !.pc = pc]]

\* Lines 57-63: caller t enters __call__, from outside or through line 140,
\* cases the word and reads the lexicon once.
EnterStep(t) ==
    LET word == Casing(IF threads[t].pc = "idle" THEN last.word ELSE threads[t].word)
        role_to_word == lexicon[word]
    IN  /\ threads[t].pc \in {"idle", "enter"}
        /\ threads' = [threads EXCEPT ![t] =
              [@ EXCEPT !.word = word,
                        !.role_to_word = role_to_word,
                        !.pc = IF role_to_word = 0 THEN "query"
                               ELSE IF last.role # None THEN "exact" ELSE "default"]]
        /\ ncalls' = IF threads[t].pc = "idle" THEN ncalls + 1 ELSE ncalls
        /\ UNCHANGED <<lexicon, heap, db, analyzed, uncommitted, in_transaction, Config>>

\* Lines 64-68: role_to_word.get(role), one read of the dict.
ProbeExactStep(t) ==
    LET role_to_word == heap[threads[t].role_to_word] IN
    /\ threads[t].pc = "exact"
    /\ threads' = IF HasRole(role_to_word, last.role)
                  THEN Return(t, Returned(AtRole(role_to_word, last.role)))
                  ELSE Goto(t, "default")
    /\ UNCHANGED <<lexicon, heap, db, ncalls, analyzed, uncommitted, in_transaction, Config>>

\* Lines 70-73: role_to_word.get(DEFAULT_ROLE), one read of the dict.
ProbeDefaultStep(t) ==
    LET role_to_word == heap[threads[t].role_to_word] IN
    /\ threads[t].pc = "default"
    /\ threads' = IF HasRole(role_to_word, DEFAULT_ROLE)
                  THEN Return(t, Returned(AtRole(role_to_word, DEFAULT_ROLE)))
                  ELSE Goto(t, "any")
    /\ UNCHANGED <<lexicon, heap, db, ncalls, analyzed, uncommitted, in_transaction, Config>>

\* Lines 76 and 80: "if role_to_word:", one read of the dict; None when empty.
ProbeAnyStep(t) ==
    /\ threads[t].pc = "any"
    /\ threads' = IF heap[threads[t].role_to_word] = <<>>
                  THEN Return(t, ReturnedNone)
                  ELSE Goto(t, "iter")
    /\ UNCHANGED <<lexicon, heap, db, ncalls, analyzed, uncommitted, in_transaction, Config>>

\* Line 77, iter(role_to_word.values()): the iterator notes the dict's size.
ProbeIterStep(t) ==
    /\ threads[t].pc = "iter"
    /\ threads' = [threads EXCEPT ![t] =
          [@ EXCEPT !.size = Len(heap[threads[t].role_to_word]), !.pc = "next"]]
    /\ UNCHANGED <<lexicon, heap, db, ncalls, analyzed, uncommitted, in_transaction, Config>>

\* Line 77, next(...): the first value, or RuntimeError when the dict has
\* changed size since the iterator was made.
ProbeNextStep(t) ==
    LET role_to_word == heap[threads[t].role_to_word] IN
    /\ threads[t].pc = "next"
    /\ threads' = IF Len(role_to_word) # threads[t].size
                  THEN Return(t, Raised)
                  ELSE Return(t, Returned(role_to_word[1].phonemes))
    /\ UNCHANGED <<lexicon, heap, db, ncalls, analyzed, uncommitted, in_transaction, Config>>

\* Lines 87-108: the only candidate is the word itself; the SELECT of caller t.
QueryStep(t) ==
    /\ threads[t].pc = "query"
    /\ LET rows == Select(db, threads[t].word, last.role)
       IN  threads' = [threads EXCEPT ![t] =
              [@ EXCEPT !.rows = rows, !.todo = rows,
                        !.pc = IF rows = <<>> THEN "analyze" ELSE "bind"]]
    /\ UNCHANGED <<lexicon, heap, db, ncalls, analyzed, uncommitted, in_transaction, Config>>

\* Lines 109-111: caller t saw no rows and calls espeak; without write-back
\* its loop is over and it returns None (line 143).
AnalyzeStep(t) ==
    /\ threads[t].pc = "analyze"
    /\ threads' = [threads EXCEPT ![t] =
          [@ EXCEPT !.phonemes = phonemize(threads[t].word),
                    !.pc = IF db_update_on THEN "insert" ELSE "done"]]
    /\ analyzed' = [analyzed EXCEPT ![<<threads[t].word, last.role>>] = @ + 1]
    /\ UNCHANGED <<lexicon, heap, db, ncalls, uncommitted, in_transaction, Config>>

\* The other caller is using the connection both callers share: it has
\* begun a transaction and its commit is not over.  sqlite3 does not guard
\* two callers using one connection at once.
Busy(t) == \E u \in Threads \ {t} : threads[u].pc \in {"execute", "commit"}

\* Lines 112-117, db_conn.execute up to its statement: sqlite3 begins a
\* transaction when it sees none open.  While the other caller uses the
\* connection the BEGIN can raise, which line 119 swallows: caller t
\* returns None (line 143) whatever the table holds by then.
BeginStep(t) ==
    /\ threads[t].pc = "insert"
    /\ \E outcome \in (IF Busy(t) THEN {"begun", "raised"} ELSE {"begun"}) :
          /\ threads' = Goto(t, IF outcome = "raised" THEN "done" ELSE "execute")
          /\ in_transaction' = (in_transaction \/ outcome = "begun")
    /\ UNCHANGED <<lexicon, heap, db, ncalls, analyzed, uncommitted, Config>>

\* Lines 112-117, the INSERT statement of caller t, the caller having been
\* suspended or not since its BEGIN.  While the other caller uses the
\* connection the row is added, or it is not, either because the statement
\* raises and line 119 swallows it or with no exception at all.  A row
\* added while no transaction is open, the other caller's commit having
\* ended it, is committed at once.
ExecuteStep(t) ==
    LET inserted == Insert(db, threads[t].word, threads[t].phonemes, last.role)
    IN  /\ threads[t].pc = "execute"
        /\ \E outcome \in (IF Busy(t) THEN {"added", "raised", "lost"} ELSE {"added"}) :
              /\ db' = IF outcome = "added" THEN inserted ELSE db
              /\ uncommitted' = IF outcome = "added" /\ in_transaction
                                THEN uncommitted \cup (inserted \ db) ELSE uncommitted
              /\ threads' = Goto(t, IF outcome = "raised" THEN "done" ELSE "commit")
        /\ UNCHANGED <<lexicon, heap, ncalls, analyzed, in_transaction, Config>>

\* Lines 118-121, then 143: the commit of caller t ends the open transaction,
\* or raises because the other caller's commit has ended it already, which
\* line 119 swallows; caller t returns None.
CommitStep(t) ==
    /\ threads[t].pc = "commit"
    /\ uncommitted' = {}
    /\ in_transaction' = FALSE
    /\ threads' = Goto(t, "done")
    /\ UNCHANGED <<lexicon, heap, db, ncalls, analyzed, Config>>

\* Lines 124-128, first row: a new, empty dict is bound to the word.
BindStep(t) ==
    /\ threads[t].pc = "bind"
    /\ heap' = Append(heap, <<>>)
    /\ lexicon' = [lexicon EXCEPT ![threads[t].word] = Len(heap) + 1]
    /\ threads' = [threads EXCEPT ![t] =
          [@ EXCEPT !.role_to_word = Len(heap) + 1, !.pc = "fill"]]
    /\ UNCHANGED <<db, ncalls, analyzed, uncommitted, in_transaction, Config>>

\* Lines 130-133: the next row goes into caller t's dict, which the lexicon
\* may already show to the other caller.
FillStep(t) ==
    /\ threads[t].pc = "fill"
    /\ heap' = [heap EXCEPT ![threads[t].role_to_word] =
                   MergeRows(@, <<Head(threads[t].todo)>>)]
    /\ threads' = [threads EXCEPT ![t] =
          [@ EXCEPT !.todo = Tail(@),
                    !.pc = IF Tail(threads[t].todo) = <<>> THEN "link" ELSE "fill"]]
    /\ UNCHANGED <<lexicon, db, ncalls, analyzed, uncommitted, in_transaction, Config>>

\* Line 137, right-hand side: self.lexicon[word] is read.
LinkReadStep(t) ==
    /\ threads[t].pc = "link"
    /\ threads' = [threads EXCEPT ![t] =
          [@ EXCEPT !.linked = lexicon[threads[t].word], !.pc = "store"]]
    /\ UNCHANGED <<lexicon, heap, db, ncalls, analyzed, uncommitted, in_transaction, Config>>

\* Line 137, the assignment to self.lexicon[lookup_word], lookup_word being
\* the word; then line 140 calls self(word, role=role).
LinkWriteStep(t) ==
    /\ threads[t].pc = "store"
    /\ lexicon' = [lexicon EXCEPT ![threads[t].word] = threads[t].linked]
    /\ threads' = Goto(t, "enter")
    /\ UNCHANGED <<heap, db, ncalls, analyzed, uncommitted, in_transaction, Config>>

ConcNext ==
    \E t \in Threads :
        \/ EnterStep(t)
        \/ ProbeExactStep(t)
        \/ ProbeDefaultStep(t)
        \/ ProbeAnyStep(t)
        \/ ProbeIterStep(t)
        \/ ProbeNextStep(t)
        \/ QueryStep(t)
        \/ AnalyzeStep(t)
        \/ BeginStep(t)
        \/ ExecuteStep(t)
        \/ CommitStep(t)
        \/ BindStep(t)
        \/ FillStep(t)
        \/ LinkReadStep(t)
        \/ LinkWriteStep(t)

ConcSpec == ConcInit /\ [][ConcNext]_vars

(***************************************************************************)
(* Properties.  They read the history variables: last (arguments, result   *)
(* and trace of the latest call), before (the phonemizer when that call    *)
(* began), db0, analyzed and faulted.                                      *)
(***************************************************************************)

\* A caller has made a call.
Called == ncalls > 0

\* The word the latest call looked up: its argument after casing.
Word == Casing(last.word)

\* The latest call missed the lexicon with a word that is not empty.
Missed == Called /\ Word # "" /\ before.lexicon[Word] = 0

\* The latest call met a lexicon entry for its word.
Hit == Called /\ before.lexicon[Word] # 0

\* The role-map the latest call met.
HitMap == before.heap[before.lexicon[Word]]

\* Casing leaves the looked up word as it is, so that the re-resolution of
\* line 140, which applies the casing function again, looks up the same word.
Stable == Casing(Word) = Word

\* The trace of the latest call has an event of one of ops on word.
Did(ops, word) == \E i \in 1..Len(last.log) : last.log[i].op \in ops /\ last.log[i].word = word

\* The trace of the latest call has an event of one of ops.
DidAny(ops) == \E i \in 1..Len(last.log) : last.log[i].op \in ops

\* The store and espeak operations of a trace.
StoreOps == {"query", "query_failed", "insert", "insert_failed"}
AnalyzerOps == {"analyze", "analyze_failed"}
FailedOps == {"query_failed", "insert_failed", "analyze_failed"}

\* A str as the sequence of its symbols, each a one-character str.
Symbols(s) == [i \in 1..Len(s) |-> <<s[i]>>]

\* C1 (as claimed; the code returns None): a call with write-back enabled on
\* an empty table that misses the lexicon, finds no rows for its word and for
\* no transformed spelling, returns what the analyzer gave for the word.
C1_ReturnsAnalyzed ==
    (Missed /\ db_update_on /\ before.db = {} /\ ~DidAny(FailedOps)
       /\ Did({"analyze"}, Word)
       /\ \A i \in 1..Len(last.log) : last.log[i].op = "query" => last.log[i].n = 0)
    => /\ last.ret.kind = "phonemes"
       /\ last.ret.val \in {split(phonemize(Word)), Symbols(phonemize(Word))}

\* The rows of table t for <<word, role>>.
RowsOf(t, word, role) == {r \in t : r.word = word /\ r.role = role}

\* C2: with write-back enabled, a table that was empty at construction and no
\* failing store or analyzer operation, the analyzer has been invoked at most
\* once for each word and role, the table holds exactly one row for each
\* invocation, and a call whose word and role already had a row neither
\* analyzes nor inserts that word again.
C2_AnalyzedOnce ==
    (db_update_on /\ db0 = {} /\ ~faulted)
    => /\ \A k \in Keys :
            /\ analyzed[k] <= 1
            /\ Cardinality(RowsOf(db, k[1], k[2])) = analyzed[k]
       /\ (Called /\ RowsOf(before.db, Word, last.role) # {})
            => ~Did(AnalyzerOps \cup {"insert", "insert_failed"}, Word)

\* C2 witness: the second of two calls for "a" as a noun was answered from
\* the row the first call wrote back.
C2_Witness ==
    /\ db_update_on /\ db0 = {} /\ ~faulted /\ ncalls = 2
    /\ Word = "a" /\ last.role = "noun"
    /\ analyzed[<<"a", "noun">>] = 1
    /\ RowsOf(before.db, "a", "noun") # {}
    /\ before.lexicon["a"] = 0
    /\ Did({"query"}, "a")
    /\ last.ret.kind = "phonemes"

\* C3 (as claimed; the code returns None): when the INSERT of the analysis of
\* the looked up word fails, the call does not raise and returns what the
\* analyzer gave for the word.
C3_InsertFailureStillReturns ==
    (Missed /\ Did({"insert_failed"}, Word)
       /\ \A i \in 1..Len(last.log) : last.log[i].op = "query" => last.log[i].n = 0)
    => /\ last.ret.kind = "phonemes"
       /\ last.ret.val \in {split(phonemize(Word)), Symbols(phonemize(Word))}

\* C4: a call whose word, after casing, is a lexicon key with a non-empty
\* role-map makes no store query, no insert and no analyzer call, whatever
\* role is asked for, and leaves the table as it was.
C4_HitTouchesNothing ==
    (Hit /\ HitMap # <<>>)
    => /\ ~DidAny(StoreOps \cup AnalyzerOps)
       /\ db = before.db

\* C4 witness: a call asked for a role that the non-empty role-map of its
\* word does not have, and was answered.
C4_Witness ==
    /\ Hit /\ HitMap # <<>>
    /\ last.role # None /\ ~HasRole(HitMap, last.role)
    /\ last.ret.kind = "phonemes"

\* C5: a call whose word has a present but empty role-map returns None, makes
\* no store query and no analyzer call, and leaves lexicon and table as they
\* were (so that repeating it meets the same state and does the same).
C5_EmptyMapIsNotFound ==
    (Hit /\ HitMap = <<>>)
    => /\ last.ret = ReturnedNone
       /\ ~DidAny(StoreOps \cup AnalyzerOps)
       /\ lexicon = before.lexicon /\ heap = before.heap /\ db = before.db

\* C5 witness: the second of two calls that both met the empty role-map.
C5_Witness ==
    /\ Hit /\ HitMap = <<>> /\ ncalls = 2
    /\ lexicon[Word] # 0 /\ heap[lexicon[Word]] = <<>>
    /\ last.ret = ReturnedNone
    /\ db = db0

\* C6: on a lexicon hit the call returns the entry of the requested role when
\* a role is given and the role-map has it; otherwise the entry of the default
\* role when the role-map has it; otherwise the first inserted entry; and the
\* hit leaves the lexicon as it was, so that the same call gives the same
\* entry again.
C6_RolePreference ==
    Hit =>
      LET exact == {i \in 1..Len(HitMap) : last.role # None /\ HitMap[i].role = last.role}
          default == {i \in 1..Len(HitMap) : HitMap[i].role = DEFAULT_ROLE}
      IN  /\ lexicon = before.lexicon /\ heap = before.heap
          /\ \A i \in exact : last.ret = Returned(HitMap[i].phonemes)
          /\ exact = {} => \A i \in default : last.ret = Returned(HitMap[i].phonemes)
          /\ (exact = {} /\ default = {} /\ HitMap # <<>>)
               => last.ret = Returned(HitMap[1].phonemes)

\* C6 witness: neither the requested role nor the default role is in a
\* role-map of two entries, and the first inserted one was returned.
C6_Witness ==
    /\ Hit /\ Len(HitMap) >= 2
    /\ last.role # None /\ ~HasRole(HitMap, last.role) /\ ~HasRole(HitMap, DEFAULT_ROLE)
    /\ last.ret = Returned(HitMap[1].phonemes)
    /\ HitMap[1].phonemes # HitMap[2].phonemes

\* C7 (as claimed; the code violates it): a call with role r for a word
\* that is no lexicon key, when the table has rows of that word with role r
\* and no operation fails, returns the whitespace-split phonemes of the row
\* of lowest pron_order among them.
C7_LowestPronOrder ==
    (Missed /\ last.role # None /\ last.ret.kind # "raise"
       /\ RowsOf(before.db, Word, last.role) # {})
    => \E r \in RowsOf(before.db, Word, last.role) :
          /\ \A q \in RowsOf(before.db, Word, last.role) : r.pron_order <= q.pron_order
          /\ last.ret.kind = "phonemes"
          /\ last.ret.val = SplitFrom(r.phonemes, <<>>, <<>>)

\* The trace of the latest call up to its re-resolution (line 140): the
\* events after the opening probe and before the next probe.
Frame ==
    LET probes == {i \in 2..Len(last.log) : last.log[i].op \in {"hit", "miss"}}
        end == IF probes = {} THEN Len(last.log)
               ELSE (CHOOSE i \in probes : \A j \in probes : i <= j) - 1
    IN  SubSeq(last.log, 2, end)

\* The candidates the latest call went through, in the order it did.
Visits == SelectSeq(Frame, LAMBDA e : e.op \in {"skip", "query", "query_failed"})

\* The candidate functions the latest call was given, the identity first.
Given == <<None>> \o (IF last.do_transforms THEN word_transform_funcs ELSE <<>>)

\* The spelling of the i-th candidate of the latest call.
Spelling(i) == IF Given[i] = None THEN Word ELSE ApplyFunc(Given[i], Word)

\* C8: on a lexicon miss the candidates are visited in the order identity,
\* transform 1, transform 2, ...; an empty spelling is skipped with no store
\* or analyzer operation; every candidate before the last visited one was
\* skipped or queried without rows; the visits stop early only at a candidate
\* with rows or at a failure; and without do_transforms only the identity is
\* visited.  After a candidate with rows nothing more is queried.
C8_CandidateOrder ==
    Missed =>
      /\ Len(Visits) >= 1 /\ Len(Visits) <= Len(Given)
      /\ \A i \in 1..Len(Visits) :
            /\ Visits[i].word = Spelling(i)
            /\ Visits[i].op = "skip" <=> Spelling(i) = ""
      /\ \A i \in 1..(Len(Visits) - 1) :
            Visits[i].op = "skip" \/ (Visits[i].op = "query" /\ Visits[i].n = 0)
      /\ Len(Visits) < Len(Given) =>
            \/ last.ret.kind = "raise"
            \/ Visits[Len(Visits)].op = "query" /\ Visits[Len(Visits)].n > 0
      /\ ~Did(StoreOps \cup AnalyzerOps, "")
      /\ ~last.do_transforms => Len(Visits) = 1
      /\ Stable =>
            \A i, j \in 1..Len(last.log) :
               (i < j /\ last.log[i].op = "query" /\ last.log[i].n > 0)
                  => last.log[j].op = "hit"

\* C8 witness: the identity spelling had no rows, the first transform gave
\* the empty spelling and was skipped, the second transform's spelling had
\* rows.
C8_Witness ==
    /\ Missed /\ Len(Visits) = 3
    /\ Visits[1].op = "query" /\ Visits[1].n = 0
    /\ Visits[2].op = "skip"
    /\ Visits[3].op = "query" /\ Visits[3].n > 0 /\ Visits[3].word # Word

\* C9 (as claimed; the code violates it): once a call has written back the
\* analysis of <<word, role>>, a later call for the same word and role that
\* does not raise returns the analyzed sequence, symbol for symbol (taken
\* either as the symbols of the analyzer's str or as its whitespace-split
\* tokens).  Stated for words that casing leaves as they are.
C9_RoundTrip ==
    (Called /\ Stable /\ last.ret.kind # "raise")
    => \A r \in RowsOf(before.db \ db0, Word, last.role) :
          /\ last.ret.kind = "phonemes"
          /\ last.ret.val \in {Symbols(r.phonemes), SplitFrom(r.phonemes, <<>>, <<>>)}

\* The greatest of a non-empty set of numbers.
Max(S) == CHOOSE x \in S : \A y \in S : x >= y

\* C10: no two rows of the table share <<word, role, pron_order>> or an id;
\* every INSERT statement of a call that went through added one row, with
\* as id one more than the greatest id of the table it met (1 on an empty
\* table) and as pron_order one more than the greatest pron_order of its
\* word there (0 when the word had no row); the rows the table has gained
\* are rows of those statements, and all of them when no write-back failed.
C10_StoreInvariant ==
    /\ \A r, q \in db :
          (r.id = q.id \/ (r.word = q.word /\ r.role = q.role /\ r.pron_order = q.pron_order))
             => r = q
    /\ \A i \in 1..Len(last.ins) :
          LET into == last.ins[i].into
          IN  /\ Cardinality(last.ins[i].rows) = 1
              /\ \A r \in last.ins[i].rows :
                    LET same == {q \in into : q.word = r.word}
                    IN  /\ r.id = IF into = {} THEN 1 ELSE Max({q.id : q \in into}) + 1
                        /\ r.pron_order = IF same = {} THEN 0
                                          ELSE Max({q.pron_order : q \in same}) + 1
    /\ db \ before.db \subseteq UNION {last.ins[i].rows : i \in 1..Len(last.ins)}
    /\ ~DidAny({"insert_failed"})
          => UNION {last.ins[i].rows : i \in 1..Len(last.ins)} \subseteq db

\* C10 witness: one call inserted two rows, one of them for a word that had
\* rows of other roles.
C10_Witness ==
    /\ Len(last.ins) = 2
    /\ \E r, q \in db \ before.db :
          /\ r.id < q.id
          /\ r.pron_order > 0
          /\ \E p \in before.db : p.word = r.word /\ p.role # r.role

\* C11 (as claimed; the code violates it): every row that was in the table
\* when a call began is in the table afterwards, unchanged, and with
\* write-back disabled the table is the one of construction.
C11_RowsKept ==
    /\ before.db \subseteq db
    /\ ~db_update_on => db = db0

\* C12 (as claimed; the code violates it): a word that was a lexicon key with
\* a non-empty role-map when a call began is still a key afterwards, with a
\* role-map of the same items.
C12_EntriesKept ==
    \A w \in Words :
       (Called /\ before.lexicon[w] # 0 /\ before.heap[before.lexicon[w]] # <<>>)
       => /\ lexicon[w] # 0
          /\ heap[lexicon[w]] = before.heap[before.lexicon[w]]

\* The word and role both concurrent callers look up had no rows in the
\* table at construction.
Absent == Select(db0, Casing(last.word), last.role) = <<>>

\* The rows of the concurrent callers' word and role added since construction.
Persisted == {r \in db \ db0 : r.word = Casing(last.word) /\ r.role = last.role}

\* C13 (as claimed; violated under ConcSpec): two interleaved lookups of the
\* same absent word and role with write-back enabled persist at most one row
\* for them and call the analyzer at most once.
C13_NoDuplicate ==
    (db_update_on /\ Absent)
    => /\ Cardinality(Persisted) <= 1
       /\ analyzed[<<Casing(last.word), last.role>>] <= 1

\* C14 (as claimed; the code violates it): a call in which the SELECT or
\* phonemize raised ends with that exception, neither with None nor with
\* phonemes, and with the lexicon it began with.
C14_FailurePropagates ==
    (Called /\ DidAny({"query_failed", "analyze_failed"}))
    => /\ last.ret.kind = "raise"
       /\ lexicon = before.lexicon /\ heap = before.heap

\* The latest call missed the lexicon and ended its loop at a candidate whose
\* SELECT gave rows.
Fetched ==
    /\ Missed /\ Visits # <<>>
    /\ Visits[Len(Visits)].op = "query" /\ Visits[Len(Visits)].n > 0

\* The spelling whose rows the latest call fetched.
Via == Visits[Len(Visits)].word

\* What a caller's next call self(word, role=last.role) would do and return.
Later(word) ==
    CHOOSE c \in Call(Phonemizer, word, last.role, TRUE, {NoFault}) : TRUE

\* C15 (as claimed; the code violates it): after a call that fetched rows
\* through a spelling and returned phonemes, the word and that spelling are
\* lexicon keys of one and the same dict, and the next call for the spelling
\* with the same role makes no store or espeak operation and returns what
\* this call returned.
C15_SharedRoleMap ==
    (Fetched /\ last.ret.kind = "phonemes")
    => /\ lexicon[Word] # 0
       /\ lexicon[Via] = lexicon[Word]
       /\ \A i \in 1..Len(Later(Via).log) : Later(Via).log[i].op \in {"hit", "miss", "skip"}
       /\ Later(Via).ret = last.ret

\* C16 (as claimed; the code violates it): in a call that fetched rows, the
\* call of line 140 is answered by the lexicon probe: every event after the
\* first SELECT that gave rows is a lexicon hit, whatever the casing function.
C16_ReResolutionProbes ==
    Called =>
       \A i, j \in 1..Len(last.log) :
          (i < j /\ last.log[i].op = "query" /\ last.log[i].n > 0)
             => last.log[j].op = "hit"

\* C17: a call that missed the lexicon and got rows from no SELECT, none of
\* its operations raising, returns None and leaves the lexicon as it was, no
\* key added; so the next call for the same word misses the lexicon again and
\* queries the store.
C17_NotFoundLeavesLexicon ==
    (Missed /\ last.ret.kind # "raise"
       /\ \A i \in 1..Len(last.log) : last.log[i].op = "query" => last.log[i].n = 0)
    => /\ last.ret.kind = "None"
       /\ lexicon = before.lexicon /\ heap = before.heap
       /\ Later(last.word).log[1] = Event("miss", Word, 0)
       /\ Later(last.word).log[2].op = "query" /\ Later(last.word).log[2].word = Word

\* C17 witness: without write-back, the call queried its word and both
\* transformed spellings, none had rows, and it returned None; the next call
\* for the word queries again and again finds nothing.
C17_Witness ==
    /\ Missed /\ ~db_update_on /\ Len(Visits) = 3
    /\ \A i \in 1..3 : Visits[i].op = "query" /\ Visits[i].n = 0
    /\ last.ret.kind = "None"
    /\ lexicon = before.lexicon
    /\ Later(last.word).log[2] = Event("query", Word, 0)

\* The i-th event of the latest call's trace, or a null event past its end.
At(i) == IF i \in 1..Len(last.log) THEN last.log[i] ELSE Event("end", "", 0)

\* The positions of the latest call's trace with an event of one of ops.
Where(ops) == {i \in 1..Len(last.log) : last.log[i].op \in ops}

\* C18: in one call, none of whose operations raises, every SELECT that gave
\* no rows is followed at once by one phonemize of the same spelling, which is
\* not empty, and phonemize happens nowhere else, in particular not after a
\* SELECT that gave rows; with write-back every phonemize is followed at once
\* by one INSERT of the same spelling, the rows the call added are as many as
\* its phonemize calls, each with an analyzed spelling, its analysis and the
\* call's role; without write-back nothing is inserted.
C18_AnalyzedPerCandidate ==
    (Called /\ ~DidAny(FailedOps))
    => /\ \A i \in Where({"query"}) :
             /\ last.log[i].word # ""
             /\ last.log[i].n = 0 =>
                   (At(i + 1).op = "analyze" /\ At(i + 1).word = last.log[i].word)
             /\ last.log[i].n > 0 => At(i + 1).op \notin AnalyzerOps
       /\ \A j \in Where({"analyze"}) :
             /\ At(j - 1).op = "query" /\ At(j - 1).n = 0 /\ At(j - 1).word = last.log[j].word
             /\ db_update_on => (At(j + 1).op = "insert" /\ At(j + 1).word = last.log[j].word)
       /\ \A j \in Where({"insert"}) :
             db_update_on /\ At(j - 1).op = "analyze" /\ At(j - 1).word = last.log[j].word
       /\ db_update_on =>
             /\ Cardinality(db \ before.db) = Cardinality(Where({"analyze"}))
             /\ \A r \in db \ before.db :
                   /\ r.role = last.role
                   /\ r.phonemes = phonemize(r.word)
                   /\ Did({"analyze"}, r.word)
             /\ \A j \in Where({"analyze"}) : \E r \in db \ before.db : r.word = last.log[j].word
       /\ ~db_update_on => db = before.db

\* C18 witness: with write-back, one call found no rows for its word nor for
\* a transformed spelling that is another word, analyzed and inserted both,
\* and never analyzed the spelling of a SELECT that gave rows.
C18_Witness ==
    /\ Called /\ ~DidAny(FailedOps) /\ db_update_on
    /\ Cardinality(Where({"analyze"})) = 2
    /\ Cardinality(db \ before.db) = 2
    /\ \E r, q \in db \ before.db : r.word # q.word /\ r.role = "noun" /\ q.role = "noun"
    /\ \E i \in Where({"query"}) : last.log[i].n > 0

\* The rows the latest call fetched: those of the spelling it ended its loop
\* at, of any role when the requested role is None or "".
FetchedRows == {r \in db : r.word = Via /\ (last.role \in {None, DEFAULT_ROLE} \/ r.role = last.role)}

\* The row of FetchedRows with the lowest pron_order among those of role.
Lowest(role) ==
    CHOOSE r \in FetchedRows :
       r.role = role /\ \A q \in FetchedRows : q.role = role => r.pron_order <= q.pron_order

\* The dict the lexicon binds the latest call's word to.
RoleMap == heap[lexicon[Word]]

\* C19: after a call that fetched rows, for a word casing leaves as it is,
\* the dict bound to the word (as cased, before any transform) has one item
\* for each role among the fetched rows and no other, each item holds the
\* whitespace-split phonemes of the fetched row of lowest pron_order with
\* that role, and the items stand in the order of those pron_orders.
C19_RoleMapFromRows ==
    (Fetched /\ Stable)
    => /\ lexicon[Word] # 0
       /\ {RoleMap[i].role : i \in 1..Len(RoleMap)} = {r.role : r \in FetchedRows}
       /\ Len(RoleMap) = Cardinality({r.role : r \in FetchedRows})
       /\ \A i \in 1..Len(RoleMap) :
             RoleMap[i].phonemes = SplitFrom(Lowest(RoleMap[i].role).phonemes, <<>>, <<>>)
       /\ \A i, j \in 1..Len(RoleMap) :
             i < j => Lowest(RoleMap[i].role).pron_order < Lowest(RoleMap[j].role).pron_order

\* C19 witness: the call fetched three rows of two roles, the two of one
\* role in the table with ids against their pron_order, and the word's new
\* dict has two items, the role of the lowest pron_order first.
C19_Witness ==
    /\ Fetched /\ Stable
    /\ Cardinality(FetchedRows) = 3
    /\ Len(RoleMap) = 2
    /\ \E r, q \in FetchedRows :
          r.role = q.role /\ r.pron_order < q.pron_order /\ r.id > q.id
    /\ RoleMap[1].role = "verb" /\ RoleMap[2].role = "noun"

====
